---- MODULE Spec2Model ----
(***************************************************************************)
(* Reconciliation workflows of the community.vmware modules                *)
(*   plugins/modules/vmware_host_graphics.py  (Host Graphics Reconciler)   *)
(*   plugins/modules/vmware_tag.py            (Tag Reconciler)             *)
(* Each module run is a state machine: main() builds the object, then the  *)
(* ensure method walks its branches and ends in exit_json or fail_json.    *)
(* The vSphere services are the environment: their stored state and the    *)
(* log of the calls the module issues to them are part of the state.       *)
(* Messages are kept as the tuple of the pieces the code concatenates.     *)
(***************************************************************************)
EXTENDS Naturals, Sequences, FiniteSets, TLC

\* ------------------------------------------------------------------ bounds
MaxHosts == 2
MaxTags == 2
FaultMsgs == {"vmodl fault A", "vmodl fault B"}
ErrorMsgs == {"vapi error A", "vapi error B"}

\* ------------------------------------------------------------------ state
VARIABLES
    hostSystems,      \* vCenter: the host systems the enumeration can resolve, in order
    connectionState,  \* vCenter: host.runtime.connectionState
    graphicsConfig,   \* ESXi: host.configManager.graphicsManager.graphicsConfig
    hg_params,        \* module parameters and check mode of the host graphics run
    hosts,            \* self.hosts
    idx,              \* position of the for loop over self.hosts
    results,          \* self.results
    hg_pc,            \* "main", "ensure", "exited", "failed"
    hg_report,        \* what exit_json / fail_json handed to the runtime
    hg_calls,         \* calls issued to the host's managers, in order
    tagStore,         \* tagging service: the tags, in enumeration order
    tag_params,       \* self.params of the tag run
    tag_check_mode,   \* the tag run was started in check mode
    global_tags,      \* self.global_tags
    tag_obj,          \* self.tag_obj: <<>> for None, else <<tag>>
    current_state,    \* what check_tag_status() returned to ensure_state, "" before
    tag_pc,           \* "main", "ensure_state", "exited", "failed"
    tag_report,       \* what exit_json / fail_json handed to the runtime
    tag_calls,        \* calls issued to the tagging service, in order
    invocation,       \* 1 in the first run of the module, 2 in a second run
    prev_report       \* the report of the run before this one, if any

hg_vars == <<hostSystems, connectionState, graphicsConfig, hg_params, hosts, idx,
             results, hg_pc, hg_report, hg_calls>>

tag_vars == <<tagStore, tag_params, tag_check_mode, global_tags, tag_obj, current_state, tag_pc,
              tag_report, tag_calls>>

run_vars == <<invocation, prev_report>>

vars == <<hg_vars, tag_vars, run_vars>>

\* --------------------------------------------------- vSphere value domains
AllHosts == <<"esxi01", "esxi02", "esxi03", "esxi04">>
ConnectionStates == {"connected", "disconnected", "notResponding"}
GraphicsTypes == {"shared", "sharedDirect"}
AssignmentPolicies == {"consolidation", "performance"}
GraphicsConfigs ==
    [hostDefaultGraphicsType : GraphicsTypes,
     sharedPassthruAssignmentPolicy : AssignmentPolicies]

Range(s) == {s[i] : i \in DOMAIN s}
Contains(msg, piece) == \E i \in DOMAIN msg : msg[i] = piece
EmptyDict == [k \in {} |-> TRUE]

\* argument_spec of main(): every key is present in params, with its default
hg_argument_spec ==
    [graphic_type : GraphicsTypes,
     assigment_policy : AssignmentPolicies,
     restart_xorg : BOOLEAN,
     check_mode : BOOLEAN]

\* what get_all_host_objs may hand back: None, or a (possibly empty) list
get_all_host_objs ==
    {[is_none |-> TRUE, objs |-> <<>>], [is_none |-> FALSE, objs |-> hostSystems]}

\* AnsibleModule.exit_json(**kwargs) / fail_json(**kwargs)
exit_json(kwargs) == kwargs
fail_json(kwargs) == ("failed" :> TRUE) @@ kwargs


\* ------------------------------------------------- ensure(): pure helpers
current_config_diff_wrong_param(current_config) ==
    LET type_differs ==
            current_config.hostDefaultGraphicsType # hg_params.assigment_policy
        c1 == IF type_differs
              THEN [current_config EXCEPT !.hostDefaultGraphicsType = hg_params.graphic_type]
              ELSE current_config
        policy_differs ==
            c1.sharedPassthruAssignmentPolicy # hg_params.assigment_policy
        c2 == IF policy_differs
              THEN [c1 EXCEPT !.sharedPassthruAssignmentPolicy = hg_params.assigment_policy]
              ELSE c1
    IN  [changed |-> type_differs \/ policy_differs, current_config |-> c2]

\* lines 119-126: the diff against the desired values, applied to the local copy
current_config_diff(current_config) ==
    LET type_differs ==
            current_config.hostDefaultGraphicsType # hg_params.graphic_type
        c1 == IF type_differs
              THEN [current_config EXCEPT !.hostDefaultGraphicsType = hg_params.graphic_type]
              ELSE current_config
        policy_differs ==
            c1.sharedPassthruAssignmentPolicy # hg_params.assigment_policy
        c2 == IF policy_differs
              THEN [c1 EXCEPT !.sharedPassthruAssignmentPolicy = hg_params.assigment_policy]
              ELSE c1
    IN  [changed |-> type_differs \/ policy_differs, current_config |-> c2]

\* line 116: host.runtime.connectionState == "connected"
is_connected_unless_disconnected(host) == connectionState[host] # "disconnected"
is_connected(host) == connectionState[host] = "connected"

\* line 129: self.module.check_mode
check_mode_ignored == FALSE
check_mode == hg_params.check_mode

would_be_changed_msg(current_config) ==
    LET not_world == IF hg_params.restart_xorg THEN "" ELSE "not "
    IN  <<"New host graphics settings would be changed to: hostDefaultGraphicsType = '",
          current_config.hostDefaultGraphicsType,
          "', sharedPassthruAssignmentPolicy = '",
          current_config.sharedPassthruAssignmentPolicy,
          "'. X.Org would ", not_world, "be restrted.">>

changed_to_msg(current_config) ==
    LET xorg_status == IF hg_params.restart_xorg THEN "was restarted"
                       ELSE "was not been restarted."
    IN  <<"New host graphics settings changed to: hostDefaultGraphicsType = '",
          current_config.hostDefaultGraphicsType,
          "', sharedPassthruAssignmentPolicy = '",
          current_config.sharedPassthruAssignmentPolicy,
          "'. X.Org ", xorg_status>>

config_fault_msg(host, fault) ==
    <<"Failed ro configure host graphics settings for host ", host, " due to : ", fault>>

disconnected_msg(host) == <<"Host ", host, " is disconnected and cannot be changed">>

already_configured_msg == <<"All Host Graphics Settings already configured">>

\* one entry of the call log: ret / raised hold at most one value
Call(op, host, arg, ret, raised) ==
    [op |-> op, host |-> host, arg |-> arg, ret |-> ret, raised |-> raised]
ReadGraphicsConfig(host) ==
    Call("graphicsConfig", host, <<>>, <<graphicsConfig[host]>>, <<>>)
UpdateGraphicsConfig(host, config, raised) ==
    Call("UpdateGraphicsConfig", host, <<config>>, <<>>, raised)
RestartService(host, raised) ==
    Call("RestartService", host, <<"xorg">>, <<>>, raised)

\* lines 139-140: the restart is asked for only when restart_xorg is set
restart_always(host) == <<RestartService(host, <<>>)>>
restart_if_requested(host) ==
    IF hg_params.restart_xorg THEN <<RestartService(host, <<>>)>> ELSE <<>>

\* the per-host entry of self.results, written over the empty dict of line 115
host_result(host, changed, msg) ==
    (host :> [changed |-> changed, msg |-> msg]) @@ results

\* lines 142-147: the records of a host whose update went through
applied_result_host_only(host, current_config) ==
    host_result(host, TRUE, changed_to_msg(current_config))
applied_result(host, current_config) ==
    ("changed" :> TRUE) @@ host_result(host, TRUE, changed_to_msg(current_config))

\* ---------------------------------------------------------------- actions
HgIdle ==
    /\ hostSystems = <<>>
    /\ connectionState = EmptyDict
    /\ graphicsConfig = EmptyDict
    /\ hg_params = EmptyDict
    /\ hosts = [is_none |-> TRUE, objs |-> <<>>]
    /\ idx = 0
    /\ results = EmptyDict
    /\ hg_pc = "idle"
    /\ hg_report = EmptyDict
    /\ hg_calls = <<>>

TagIdle ==
    /\ tagStore = <<>>
    /\ tag_params = EmptyDict
    /\ tag_check_mode = FALSE
    /\ global_tags = <<>>
    /\ tag_obj = <<>>
    /\ current_state = ""
    /\ tag_pc = "idle"
    /\ tag_report = EmptyDict
    /\ tag_calls = <<>>

FirstRun ==
    /\ invocation = 1
    /\ prev_report = EmptyDict

HgInit ==
    /\ TagIdle
    /\ FirstRun
    /\ hostSystems \in {SubSeq(AllHosts, 1, n) : n \in 0..MaxHosts}
    /\ connectionState \in [Range(hostSystems) -> ConnectionStates]
    /\ graphicsConfig \in [Range(hostSystems) -> GraphicsConfigs]
    /\ hg_params \in hg_argument_spec
    /\ hosts = [is_none |-> TRUE, objs |-> <<>>]
    /\ idx = 0
    /\ results = EmptyDict
    /\ hg_pc = "main"
    /\ hg_report = EmptyDict
    /\ hg_calls = <<>>

\* __init__, lines 98-108, hosts found (the list may be empty)
init_hosts ==
    /\ hg_pc = "main"
    /\ \E found \in get_all_host_objs :
          /\ ~found.is_none
          /\ hosts' = found
    /\ results' = ("changed" :> FALSE)
    /\ idx' = 1
    /\ hg_pc' = "ensure"
    /\ UNCHANGED <<hostSystems, connectionState, graphicsConfig, hg_params,
                   hg_report, hg_calls>>

\* __init__, lines 107-108: self.hosts is None
init_hosts_none ==
    /\ hg_pc = "main"
    /\ \E found \in get_all_host_objs :
          /\ found.is_none
          /\ hosts' = found
    /\ results' = ("changed" :> FALSE)
    /\ hg_report' = fail_json([msg |-> <<"Failed to find host system.">>])
    /\ hg_pc' = "failed"
    /\ UNCHANGED <<hostSystems, connectionState, graphicsConfig, hg_params,
                   idx, hg_calls>>

in_loop == hg_pc = "ensure" /\ idx <= Len(hosts.objs)
host == hosts.objs[idx]

\* lines 155-157: the host is not connected
ensure_disconnected ==
    /\ in_loop
    /\ ~is_connected(host)
    /\ results' = host_result(host, FALSE, disconnected_msg(host))
    /\ idx' = idx + 1
    /\ UNCHANGED <<hostSystems, connectionState, graphicsConfig, hg_params,
                   hosts, hg_pc, hg_report, hg_calls>>

\* lines 152-154: nothing differs
ensure_already_configured ==
    /\ in_loop
    /\ is_connected(host)
    /\ ~current_config_diff(graphicsConfig[host]).changed
    /\ hg_calls' = Append(hg_calls, ReadGraphicsConfig(host))
    /\ results' = host_result(host, FALSE, already_configured_msg)
    /\ idx' = idx + 1
    /\ UNCHANGED <<hostSystems, connectionState, graphicsConfig, hg_params,
                   hosts, hg_pc, hg_report>>

\* lines 129-135: something differs, check mode
ensure_check_mode ==
    /\ in_loop
    /\ is_connected(host)
    /\ LET diff == current_config_diff(graphicsConfig[host]) IN
          /\ diff.changed
          /\ check_mode
          /\ results' = host_result(host, FALSE, would_be_changed_msg(diff.current_config))
    /\ hg_calls' = Append(hg_calls, ReadGraphicsConfig(host))
    /\ idx' = idx + 1
    /\ UNCHANGED <<hostSystems, connectionState, graphicsConfig, hg_params,
                   hosts, hg_pc, hg_report>>

\* lines 137-147: something differs, the update (and the restart) succeed
ensure_update ==
    /\ in_loop
    /\ is_connected(host)
    /\ LET diff == current_config_diff(graphicsConfig[host])
           update == UpdateGraphicsConfig(host, diff.current_config, <<>>)
           restart == restart_if_requested(host)
       IN /\ diff.changed
          /\ ~check_mode
          /\ graphicsConfig' = [graphicsConfig EXCEPT ![host] = diff.current_config]
          /\ hg_calls' = hg_calls \o <<ReadGraphicsConfig(host), update>> \o restart
          /\ results' = applied_result(host, diff.current_config)
    /\ idx' = idx + 1
    /\ UNCHANGED <<hostSystems, connectionState, hg_params, hosts, hg_pc, hg_report>>

ensure_update_fault_continues ==
    /\ in_loop
    /\ is_connected(host)
    /\ LET diff == current_config_diff(graphicsConfig[host]) IN
          /\ diff.changed
          /\ ~check_mode
          /\ \E fault \in FaultMsgs :
                /\ hg_calls' = hg_calls \o
                      <<ReadGraphicsConfig(host),
                        UpdateGraphicsConfig(host, diff.current_config, <<fault>>)>>
                /\ results' = host_result(host, FALSE, config_fault_msg(host, fault))
    /\ idx' = idx + 1
    /\ UNCHANGED <<hostSystems, connectionState, graphicsConfig, hg_params, hosts,
                   hg_pc, hg_report>>

ensure_update_fault_then_restart ==
    /\ in_loop
    /\ is_connected(host)
    /\ LET diff == current_config_diff(graphicsConfig[host]) IN
          /\ diff.changed
          /\ ~check_mode
          /\ \E fault \in FaultMsgs :
                /\ hg_calls' = hg_calls \o
                      <<ReadGraphicsConfig(host),
                        UpdateGraphicsConfig(host, diff.current_config, <<fault>>)>>
                      \o restart_if_requested(host)
                /\ hg_report' = fail_json([msg |-> config_fault_msg(host, fault)])
    /\ results' = (host :> EmptyDict) @@ results
    /\ hg_pc' = "failed"
    /\ UNCHANGED <<hostSystems, connectionState, graphicsConfig, hg_params, hosts, idx>>

\* lines 138, 148-151: UpdateGraphicsConfig raises HostConfigFault
ensure_update_fault ==
    /\ in_loop
    /\ is_connected(host)
    /\ LET diff == current_config_diff(graphicsConfig[host]) IN
          /\ diff.changed
          /\ ~check_mode
          /\ \E fault \in FaultMsgs :
                /\ hg_calls' = hg_calls \o
                      <<ReadGraphicsConfig(host),
                        UpdateGraphicsConfig(host, diff.current_config, <<fault>>)>>
                /\ hg_report' = fail_json([msg |-> config_fault_msg(host, fault)])
    /\ results' = (host :> EmptyDict) @@ results
    /\ hg_pc' = "failed"
    /\ UNCHANGED <<hostSystems, connectionState, graphicsConfig, hg_params, hosts, idx>>

\* lines 139-140, 148-151: the update went through, RestartService raises HostConfigFault
ensure_restart_fault ==
    /\ in_loop
    /\ is_connected(host)
    /\ LET diff == current_config_diff(graphicsConfig[host]) IN
          /\ diff.changed
          /\ ~check_mode
          /\ hg_params.restart_xorg
          /\ graphicsConfig' = [graphicsConfig EXCEPT ![host] = diff.current_config]
          /\ \E fault \in FaultMsgs :
                /\ hg_calls' = hg_calls \o
                      <<ReadGraphicsConfig(host),
                        UpdateGraphicsConfig(host, diff.current_config, <<>>),
                        RestartService(host, <<fault>>)>>
                /\ hg_report' = fail_json([msg |-> config_fault_msg(host, fault)])
    /\ results' = (host :> EmptyDict) @@ results
    /\ hg_pc' = "failed"
    /\ UNCHANGED <<hostSystems, connectionState, hg_params, hosts, idx>>

\* line 159: the loop is over
ensure_exit_json ==
    /\ hg_pc = "ensure"
    /\ idx > Len(hosts.objs)
    /\ hg_report' = exit_json(results)
    /\ hg_pc' = "exited"
    /\ UNCHANGED <<hostSystems, connectionState, graphicsConfig, hg_params, hosts, idx,
                   results, hg_calls>>

hg_frame == <<tag_vars, run_vars>>

HgNext ==
    \/ init_hosts /\ UNCHANGED hg_frame
    \/ init_hosts_none /\ UNCHANGED hg_frame
    \/ ensure_disconnected /\ UNCHANGED hg_frame
    \/ ensure_already_configured /\ UNCHANGED hg_frame
    \/ ensure_check_mode /\ UNCHANGED hg_frame
    \/ ensure_update /\ UNCHANGED hg_frame
    \/ ensure_update_fault /\ UNCHANGED hg_frame
    \/ ensure_restart_fault /\ UNCHANGED hg_frame
    \/ ensure_exit_json /\ UNCHANGED hg_frame

HgSpec == HgInit /\ [][HgNext]_vars


\* ================================================================ vmware_tag
None == "None"      \* Python's None, as the value of a parameter that was not given
TagNames == {"Sample_Tag_0001", "Sample_Tag_0002"}
Descriptions == {"", "Sample Description"}
TagIds == <<"tag-1", "tag-2", "tag-3", "tag-4">>
NewTagId == "tag-new"
Categories == <<"cat-A", "cat-B">>      \* category_service.list(), in order
UnknownCategory == "cat-X"

TagModels ==
    [name : TagNames, description : Descriptions, category_id : Range(Categories)]

\* argument_spec of main(), lines 263-270: AnsibleModule puts every key of the
\* argument spec into params; a parameter that was not given holds its default,
\* '' for tag_description, "present" for state and None for category_id
tag_argument_spec ==
    [tag_name : TagNames,
     tag_description : Descriptions,
     category_id : Range(Categories) \cup {UnknownCategory, None},
     state : {"present", "absent"}]

\* VmwareRestClient.get_error_message(error): the native message of the error
get_error_message(error) == error

TagCall(op, arg, ret, raised) == [op |-> op, arg |-> arg, ret |-> ret, raised |-> raised]

\* get_all_tags, lines 246-259: one dict per tag the service lists
get_all_tags_description_from_name ==
    [i \in DOMAIN tagStore |->
        [tag_name |-> tagStore[i].name,
         tag_description |-> tagStore[i].name,
         tag_used_by |-> tagStore[i].used_by,
         tag_category_id |-> tagStore[i].category_id,
         tag_id |-> tagStore[i].id]]
get_all_tags ==
    [i \in DOMAIN tagStore |->
        [tag_name |-> tagStore[i].name,
         tag_description |-> tagStore[i].description,
         tag_used_by |-> tagStore[i].used_by,
         tag_category_id |-> tagStore[i].category_id,
         tag_id |-> tagStore[i].id]]

get_all_tags_calls ==
    <<TagCall("Tag.list", <<>>, <<>>, <<>>)>>
    \o [i \in DOMAIN tagStore |-> TagCall("Tag.get", <<tagStore[i].id>>, <<>>, <<>>)]

\* check_tag_status, lines 224-244: the first tag of global_tags the scan stops at
tag_matches(tag) ==
    /\ tag_params.tag_name = tag.tag_name
    /\ IF "category_id" \in DOMAIN tag_params
       THEN tag_params.category_id = tag.tag_category_id
       ELSE TRUE

check_tag_status_last_match ==
    LET hits == {i \in DOMAIN global_tags : tag_matches(global_tags[i])}
        last == CHOOSE i \in hits : \A j \in hits : i >= j
    IN  IF hits = {} THEN [ret |-> "absent", tag_obj |-> tag_obj]
        ELSE [ret |-> "present", tag_obj |-> <<global_tags[last]>>]

check_tag_status ==
    LET hits == {i \in DOMAIN global_tags : tag_matches(global_tags[i])}
        first == CHOOSE i \in hits : \A j \in hits : i <= j
    IN  IF hits = {} THEN [ret |-> "absent", tag_obj |-> tag_obj]
        ELSE [ret |-> "present", tag_obj |-> <<global_tags[first]>>]

states_rows_swapped(desired_state, observed) ==
    IF desired_state = "absent"
    THEN (IF observed = "present" THEN "state_update_tag" ELSE "state_create_tag")
    ELSE (IF observed = "present" THEN "state_delete_tag" ELSE "state_unchanged")

\* ensure_state, lines 132-143: the table of state methods
states(desired_state, observed) ==
    IF desired_state = "present"
    THEN (IF observed = "present" THEN "state_update_tag" ELSE "state_create_tag")
    ELSE (IF observed = "present" THEN "state_delete_tag" ELSE "state_unchanged")

dispatched(method) ==
    /\ tag_pc = "ensure_state"
    /\ current_state' = check_tag_status.ret
    /\ states(tag_params.state, check_tag_status.ret) = method

category_scan_assumed_found(category_id) ==
    [category_found |-> TRUE,
     calls |-> <<TagCall("Category.list", <<>>, <<>>, <<>>)>>
               \o [i \in DOMAIN Categories |->
                      TagCall("Category.get", <<Categories[i]>>, <<>>, <<>>)]]

\* lines 157-162: the scan over the categories, up to the first hit
category_scan(category_id) ==
    LET hits == {i \in DOMAIN Categories : Categories[i] = category_id}
        last == IF hits = {} THEN Len(Categories)
                ELSE CHOOSE i \in hits : \A j \in hits : i <= j
    IN  [category_found |-> hits # {},
         calls |-> <<TagCall("Category.list", <<>>, <<>>, <<>>)>>
                   \o [i \in 1..last |-> TagCall("Category.get", <<Categories[i]>>, <<>>, <<>>)]]

\* the tagging service's own effect of a call that went through
RemoveTag(tag_id) == SelectSeq(tagStore, LAMBDA t : t.id # tag_id)
DescribeTag(tag_id, description) ==
    [i \in DOMAIN tagStore |->
        IF tagStore[i].id = tag_id
        THEN [tagStore[i] EXCEPT !.description = description]
        ELSE tagStore[i]]

TagInit ==
    /\ HgIdle
    /\ FirstRun
    /\ \E n \in 0..MaxTags :
          \E models \in [1..n -> TagModels] :
              tagStore = [i \in 1..n |->
                  [id |-> TagIds[i], name |-> models[i].name,
                   description |-> models[i].description,
                   category_id |-> models[i].category_id, used_by |-> {}]]
    /\ tag_params \in tag_argument_spec
    /\ tag_check_mode \in BOOLEAN
    /\ global_tags = <<>>
    /\ tag_obj = <<>>
    /\ current_state = ""
    /\ tag_pc = "main"
    /\ tag_report = EmptyDict
    /\ tag_calls = <<>>

\* line 270: AnsibleModule(argument_spec=argument_spec) declares no check mode
\* support; the runtime ends such a module as skipped when run in check mode
tag_supports_check_mode_declared == TRUE
tag_supports_check_mode == FALSE

check_mode_skips == tag_check_mode /\ ~tag_supports_check_mode

main_check_mode_skipped ==
    /\ tag_pc = "main"
    /\ check_mode_skips
    /\ tag_report' = exit_json(
          [skipped |-> TRUE,
           msg |-> <<"remote module (", "vmware_tag", ") does not support check mode">>])
    /\ tag_pc' = "exited"
    /\ UNCHANGED <<tagStore, tag_params, global_tags, tag_obj, current_state, tag_calls>>

\* main and __init__, lines 117-125 and 270-273
VmwareTag_init ==
    /\ tag_pc = "main"
    /\ ~check_mode_skips
    /\ global_tags' = get_all_tags
    /\ tag_calls' = tag_calls \o get_all_tags_calls
    /\ tag_obj' = <<>>
    /\ tag_pc' = "ensure_state"
    /\ UNCHANGED <<tagStore, tag_params, current_state, tag_report>>

\* lines 180-185
state_unchanged ==
    /\ dispatched("state_unchanged")
    /\ tag_obj' = check_tag_status.tag_obj
    /\ tag_report' = exit_json([changed |-> FALSE])
    /\ tag_pc' = "exited"
    /\ UNCHANGED <<tagStore, tag_params, global_tags, tag_calls>>

\* lines 211-222, the delete goes through
state_delete_tag ==
    /\ dispatched("state_delete_tag")
    /\ LET found == check_tag_status.tag_obj
           tag_id == found[1].tag_id
       IN /\ tag_obj' = found
          /\ tag_calls' = Append(tag_calls, TagCall("Tag.delete", <<tag_id>>, <<>>, <<>>))
          /\ tagStore' = RemoveTag(tag_id)
          /\ tag_report' = exit_json(
                [changed |-> TRUE,
                 tag_status |-> [msg |-> <<"Tag '", tag_params.tag_name, "' deleted.">>,
                                 tag_id |-> tag_id]])
    /\ tag_pc' = "exited"
    /\ UNCHANGED <<tag_params, global_tags>>

state_delete_tag_error_swallowed ==
    /\ dispatched("state_delete_tag")
    /\ LET found == check_tag_status.tag_obj
           tag_id == found[1].tag_id
       IN /\ tag_obj' = found
          /\ \E error \in ErrorMsgs :
                tag_calls' = Append(tag_calls,
                                    TagCall("Tag.delete", <<tag_id>>, <<>>, <<error>>))
          /\ tag_report' = exit_json(
                [changed |-> TRUE,
                 tag_status |-> [msg |-> <<"Tag '", tag_params.tag_name, "' deleted.">>,
                                 tag_id |-> tag_id]])
    /\ tag_pc' = "exited"
    /\ UNCHANGED <<tagStore, tag_params, global_tags>>

\* lines 217-220, the delete raises Error
state_delete_tag_error ==
    /\ dispatched("state_delete_tag")
    /\ LET found == check_tag_status.tag_obj
           tag_id == found[1].tag_id
       IN /\ tag_obj' = found
          /\ \E error \in ErrorMsgs :
                /\ tag_calls' = Append(tag_calls,
                                       TagCall("Tag.delete", <<tag_id>>, <<>>, <<error>>))
                /\ tag_report' = fail_json([msg |-> <<get_error_message(error)>>])
    /\ tag_pc' = "failed"
    /\ UNCHANGED <<tagStore, tag_params, global_tags>>

\* line 198: tag_desc != desired_tag_desc
description_differs_always(tag) == TRUE
description_differs(tag) == tag.tag_description # tag_params.tag_description

\* lines 187-209, the description is the desired one already
state_update_tag_unchanged ==
    /\ dispatched("state_update_tag")
    /\ LET found == check_tag_status.tag_obj
           tag_id == found[1].tag_id
       IN /\ tag_obj' = found
          /\ ~description_differs(found[1])
          /\ tag_report' = exit_json(
                [changed |-> FALSE,
                 tag_status |-> [msg |-> <<"Tag ", tag_params.tag_name, " is unchanged.">>,
                                 tag_id |-> tag_id]])
    /\ tag_pc' = "exited"
    /\ UNCHANGED <<tagStore, tag_params, global_tags, tag_calls>>

\* lines 198-209, the description differs and the update goes through
state_update_tag ==
    /\ dispatched("state_update_tag")
    /\ LET found == check_tag_status.tag_obj
           tag_id == found[1].tag_id
           desired_tag_desc == tag_params.tag_description
       IN /\ tag_obj' = found
          /\ description_differs(found[1])
          /\ tag_calls' = Append(tag_calls,
                TagCall("Tag.update", <<tag_id, desired_tag_desc>>, <<>>, <<>>))
          /\ tagStore' = DescribeTag(tag_id, desired_tag_desc)
          /\ tag_report' = exit_json(
                [changed |-> TRUE,
                 tag_status |-> [msg |-> <<"Tag ", tag_params.tag_name, " updated.">>,
                                 tag_id |-> tag_id]])
    /\ tag_pc' = "exited"
    /\ UNCHANGED <<tag_params, global_tags>>

\* lines 201-204, the update raises Error
state_update_tag_error ==
    /\ dispatched("state_update_tag")
    /\ LET found == check_tag_status.tag_obj
           tag_id == found[1].tag_id
           desired_tag_desc == tag_params.tag_description
       IN /\ tag_obj' = found
          /\ description_differs(found[1])
          /\ \E error \in ErrorMsgs :
                /\ tag_calls' = Append(tag_calls,
                      TagCall("Tag.update", <<tag_id, desired_tag_desc>>, <<>>, <<error>>))
                /\ tag_report' = fail_json([msg |-> <<get_error_message(error)>>])
    /\ tag_pc' = "failed"
    /\ UNCHANGED <<tagStore, tag_params, global_tags>>

\* lines 153-155: no category_id
state_create_tag_no_category_id ==
    /\ dispatched("state_create_tag")
    /\ tag_params.category_id = None
    /\ tag_obj' = check_tag_status.tag_obj
    /\ tag_report' = fail_json(
          [msg |-> <<"'category_id' is required parameter while creating tag.">>])
    /\ tag_pc' = "failed"
    /\ UNCHANGED <<tagStore, tag_params, global_tags, tag_calls>>

\* lines 157-165: the category is not among the categories of the service
state_create_tag_category_not_found ==
    /\ dispatched("state_create_tag")
    /\ tag_params.category_id # None
    /\ LET scan == category_scan(tag_params.category_id) IN
          /\ ~scan.category_found
          /\ tag_calls' = tag_calls \o scan.calls
    /\ tag_obj' = check_tag_status.tag_obj
    /\ tag_report' = fail_json(
          [msg |-> <<"Unable to find category specified using 'category_id' - ",
                     tag_params.category_id>>])
    /\ tag_pc' = "failed"
    /\ UNCHANGED <<tagStore, tag_params, global_tags>>

\* the CreateSpec of lines 150-152 and 167
tag_spec_without_category ==
    [name |-> tag_params.tag_name,
     description |-> tag_params.tag_description,
     category_id |-> None]
tag_spec ==
    [name |-> tag_params.tag_name,
     description |-> tag_params.tag_description,
     category_id |-> tag_params.category_id]

\* lines 174-178: the report after create returned tag_id
create_report_unchecked(tag_id) ==
    exit_json([changed |-> TRUE,
               tag_status |-> [msg |-> <<"Tag '", tag_spec.name, "' created.">>,
                               tag_id |-> tag_id]])
create_report(tag_id) ==
    IF tag_id # ""
    THEN exit_json([changed |-> TRUE,
                    tag_status |-> [msg |-> <<"Tag '", tag_spec.name, "' created.">>,
                                    tag_id |-> tag_id]])
    ELSE exit_json([changed |-> FALSE,
                    tag_status |-> [msg |-> <<"No tag created">>, tag_id |-> tag_id]])

\* lines 167-176: create returns the id of the new tag
state_create_tag ==
    /\ dispatched("state_create_tag")
    /\ tag_params.category_id # None
    /\ LET scan == category_scan(tag_params.category_id)
           tag_id == NewTagId
       IN /\ scan.category_found
          /\ tag_calls' = tag_calls \o scan.calls
                \o <<TagCall("Tag.create", <<tag_spec>>, <<tag_id>>, <<>>)>>
          /\ tagStore' = Append(tagStore,
                [id |-> tag_id, name |-> tag_spec.name,
                 description |-> tag_spec.description,
                 category_id |-> tag_spec.category_id, used_by |-> {}])
          /\ tag_report' = create_report(tag_id)
    /\ tag_obj' = check_tag_status.tag_obj
    /\ tag_pc' = "exited"
    /\ UNCHANGED <<tag_params, global_tags>>

\* lines 174-178: create returns an empty id
state_create_tag_no_id ==
    /\ dispatched("state_create_tag")
    /\ tag_params.category_id # None
    /\ LET scan == category_scan(tag_params.category_id)
           tag_id == ""
       IN /\ scan.category_found
          /\ tag_calls' = tag_calls \o scan.calls
                \o <<TagCall("Tag.create", <<tag_spec>>, <<tag_id>>, <<>>)>>
          /\ tag_report' = create_report(tag_id)
    /\ tag_obj' = check_tag_status.tag_obj
    /\ tag_pc' = "exited"
    /\ UNCHANGED <<tagStore, tag_params, global_tags>>

\* lines 169-172: create raises Error
state_create_tag_error ==
    /\ dispatched("state_create_tag")
    /\ tag_params.category_id # None
    /\ LET scan == category_scan(tag_params.category_id) IN
          /\ scan.category_found
          /\ \E error \in ErrorMsgs :
                /\ tag_calls' = tag_calls \o scan.calls
                      \o <<TagCall("Tag.create", <<tag_spec>>, <<>>, <<error>>)>>
                /\ tag_report' = fail_json([msg |-> <<get_error_message(error)>>])
    /\ tag_obj' = check_tag_status.tag_obj
    /\ tag_pc' = "failed"
    /\ UNCHANGED <<tagStore, tag_params, global_tags>>

tag_frame == <<hg_vars, tag_check_mode, run_vars>>

TagNext ==
    \/ main_check_mode_skipped /\ UNCHANGED tag_frame
    \/ VmwareTag_init /\ UNCHANGED tag_frame
    \/ state_unchanged /\ UNCHANGED tag_frame
    \/ state_delete_tag /\ UNCHANGED tag_frame
    \/ state_delete_tag_error /\ UNCHANGED tag_frame
    \/ state_update_tag_unchanged /\ UNCHANGED tag_frame
    \/ state_update_tag /\ UNCHANGED tag_frame
    \/ state_update_tag_error /\ UNCHANGED tag_frame
    \/ state_create_tag_no_category_id /\ UNCHANGED tag_frame
    \/ state_create_tag_category_not_found /\ UNCHANGED tag_frame
    \/ state_create_tag /\ UNCHANGED tag_frame
    \/ state_create_tag_no_id /\ UNCHANGED tag_frame
    \/ state_create_tag_error /\ UNCHANGED tag_frame

TagSpec == TagInit /\ [][TagNext]_vars

\* ------------------------------------------- a second run of the same task
\* main, vmware_host_graphics.py lines 162-181, entered again after a run that
\* ended in exit_json: a new module object, the same parameters, the hosts as
\* the first run left them
hg_second_invocation ==
    /\ hg_pc = "exited"
    /\ invocation = 1
    /\ invocation' = invocation + 1
    /\ prev_report' = hg_report
    /\ hosts' = [is_none |-> TRUE, objs |-> <<>>]
    /\ idx' = 0
    /\ results' = EmptyDict
    /\ hg_report' = EmptyDict
    /\ hg_calls' = <<>>
    /\ hg_pc' = "main"
    /\ UNCHANGED <<hostSystems, connectionState, graphicsConfig, hg_params>>

\* main, vmware_tag.py lines 262-273, entered again after a run that ended in
\* exit_json: a new module object, the same parameters, the tags as the first
\* run left them
tag_second_invocation ==
    /\ tag_pc = "exited"
    /\ invocation = 1
    /\ invocation' = invocation + 1
    /\ prev_report' = tag_report
    /\ global_tags' = <<>>
    /\ tag_obj' = <<>>
    /\ current_state' = ""
    /\ tag_report' = EmptyDict
    /\ tag_calls' = <<>>
    /\ tag_pc' = "main"
    /\ UNCHANGED <<tagStore, tag_params, tag_check_mode>>

\* the tagging service holds at most one tag per (name, category_id)
UniqueTags ==
    \A i, j \in DOMAIN tagStore :
        (tagStore[i].name = tagStore[j].name
            /\ tagStore[i].category_id = tagStore[j].category_id) => i = j

IdemInit ==
    \/ HgInit
    \/ TagInit /\ UniqueTags

IdemNext ==
    \/ HgNext
    \/ TagNext
    \/ hg_second_invocation /\ UNCHANGED tag_vars
    \/ tag_second_invocation /\ UNCHANGED hg_vars

IdemSpec == IdemInit /\ [][IdemNext]_vars

\* ------------------------------------------- host graphics: vocabulary
DesiredConfig ==
    [hostDefaultGraphicsType |-> hg_params.graphic_type,
     sharedPassthruAssignmentPolicy |-> hg_params.assigment_policy]
TargetHosts == Range(hosts.objs)
HostIndex(h) == CHOOSE k \in DOMAIN hosts.objs : hosts.objs[k] = h
\* the host has a finished per-host record in the dict d
Recorded(d, h) == h \in DOMAIN d /\ DOMAIN d[h] = {"changed", "msg"}
CallsOf(h, ops) == {i \in DOMAIN hg_calls : hg_calls[i].host = h /\ hg_calls[i].op \in ops}
MutationOps == {"UpdateGraphicsConfig", "RestartService"}
AllOps == MutationOps \cup {"graphicsConfig"}
RaisedCalls == {i \in DOMAIN hg_calls : hg_calls[i].raised # <<>>}
\* the live configuration the run read from the host differs from / equals the desired one
ReadDiffering(h) == \E i \in CallsOf(h, {"graphicsConfig"}) : hg_calls[i].ret[1] # DesiredConfig
ReadMatching(h) == \E i \in CallsOf(h, {"graphicsConfig"}) : hg_calls[i].ret[1] = DesiredConfig
IsPreviewOfDesired(msg) ==
    /\ Len(msg) = 7
    /\ msg[1] = "New host graphics settings would be changed to: hostDefaultGraphicsType = '"
    /\ msg[2] = hg_params.graphic_type
    /\ msg[4] = hg_params.assigment_policy

\* C2: in check mode no UpdateGraphicsConfig and no RestartService call is ever
\* issued, and every host whose live configuration differs from the desired one
\* is recorded with changed = FALSE and a preview message that lists both
\* desired values (in self.results and in the final report).
C2_DryRunPreviewsAndNeverMutates ==
    hg_params.check_mode =>
        /\ \A i \in DOMAIN hg_calls : hg_calls[i].op \notin MutationOps
        /\ \A h \in TargetHosts :
              (Recorded(results, h) /\ ReadDiffering(h)) =>
                  /\ results[h].changed = FALSE
                  /\ IsPreviewOfDesired(results[h].msg)
                  /\ hg_pc = "exited" =>
                        /\ hg_report[h].changed = FALSE
                        /\ IsPreviewOfDesired(hg_report[h].msg)

C2_Witness ==
    /\ hg_params.check_mode
    /\ hg_pc = "exited"
    /\ Len(hosts.objs) = 2
    /\ \A h \in TargetHosts : ReadDiffering(h) /\ Recorded(hg_report, h)

\* C3: a call that raises a configuration fault ends the run at once: the run is
\* failed, the report's message holds the name of the host and the text of the
\* fault, the raising call is the last call issued, and no host later in the
\* iteration order has been read, mutated or recorded.
C3_FaultIsFatalAndStopsTheLoop ==
    \A i \in RaisedCalls :
        LET c == hg_calls[i] IN
        /\ hg_pc = "failed"
        /\ hg_report["failed"] = TRUE
        /\ Contains(hg_report["msg"], c.host)
        /\ Contains(hg_report["msg"], c.raised[1])
        /\ i = Len(hg_calls)
        /\ \A k \in DOMAIN hosts.objs :
              k > HostIndex(c.host) =>
                  /\ CallsOf(hosts.objs[k], AllOps) = {}
                  /\ hosts.objs[k] \notin DOMAIN results

C3_Witness ==
    /\ RaisedCalls # {}
    /\ Len(hosts.objs) = 2
    /\ \E i \in RaisedCalls : HostIndex(hg_calls[i].host) = 1
    /\ connectionState[hosts.objs[2]] = "connected"
    /\ graphicsConfig[hosts.objs[2]] # DesiredConfig

\* C4 (as claimed): when a fault aborts the run at host k, the fatal report holds
\* the per-host results of the hosts processed before k.
C4_FatalReportCarriesEarlierResults ==
    \A i \in RaisedCalls :
        \A k \in DOMAIN hosts.objs :
            k < HostIndex(hg_calls[i].host) => Recorded(hg_report, hosts.objs[k])

\* C5 (as claimed): a run never ends successfully over zero hosts.
C5_NoSuccessOverZeroHosts ==
    hg_pc = "exited" => Len(hosts.objs) >= 1

\* C6: a connected host whose live configuration differed, outside check mode,
\* and whose mutation went through is recorded with changed = TRUE, the overall
\* flag is TRUE, exactly one UpdateGraphicsConfig call was issued for it, carrying
\* both desired values, and RestartService was issued for it iff restart_xorg.
C6_ApplyPath ==
    \A h \in TargetHosts :
        (Recorded(results, h) /\ is_connected(h) /\ ReadDiffering(h)
           /\ ~hg_params.check_mode) =>
            /\ results[h].changed = TRUE
            /\ results["changed"] = TRUE
            /\ Cardinality(CallsOf(h, {"UpdateGraphicsConfig"})) = 1
            /\ \A i \in CallsOf(h, {"UpdateGraphicsConfig"}) :
                  hg_calls[i].arg = <<DesiredConfig>> /\ hg_calls[i].raised = <<>>
            /\ Cardinality(CallsOf(h, {"RestartService"}))
                  = (IF hg_params.restart_xorg THEN 1 ELSE 0)
            /\ \A i \in CallsOf(h, {"RestartService"}) : hg_calls[i].arg = <<"xorg">>
            /\ graphicsConfig[h] = DesiredConfig
            /\ hg_pc = "exited" => hg_report[h].changed = TRUE /\ hg_report["changed"] = TRUE

C6_Witness ==
    /\ hg_pc = "exited"
    /\ ~hg_params.check_mode
    /\ ~hg_params.restart_xorg
    /\ \E h \in TargetHosts :
          /\ ReadDiffering(h)
          /\ hg_report[h].changed = TRUE
          /\ CallsOf(h, {"RestartService"}) = {}

\* C7: a connected host whose live configuration already equals the desired one
\* is recorded with changed = FALSE and the "already configured" message, and no
\* UpdateGraphicsConfig or RestartService call is issued for it, in check mode
\* and outside it.
C7_AlreadyConfiguredIsNoOp ==
    \A h \in TargetHosts :
        (h \in DOMAIN results /\ is_connected(h) /\ ReadMatching(h)) =>
            /\ Recorded(results, h)
            /\ results[h].changed = FALSE
            /\ results[h].msg = <<"All Host Graphics Settings already configured">>
            /\ CallsOf(h, MutationOps) = {}
            /\ hg_pc = "exited" => hg_report[h] = results[h]

C7_Witness ==
    /\ hg_pc = "exited"
    /\ ~hg_params.check_mode
    /\ \E h \in TargetHosts : ReadMatching(h) /\ hg_report[h].changed = FALSE
    /\ \E h \in TargetHosts : ReadDiffering(h) /\ hg_report[h].changed = TRUE

\* C8: a host that is not connected is recorded with changed = FALSE and the
\* "disconnected" message, no call at all is issued for it, and it does not end
\* the run: the loop goes on with the next host, every host between it and the
\* loop position is recorded, a run that ends without a fault has recorded every
\* host after it, and a run that failed did so at a later, connected host.
C8_DisconnectedHostIsSkipped ==
    \A h \in TargetHosts :
        (h \in DOMAIN results /\ connectionState[h] # "connected") =>
            /\ Recorded(results, h)
            /\ results[h].changed = FALSE
            /\ results[h].msg = <<"Host ", h, " is disconnected and cannot be changed">>
            /\ CallsOf(h, AllOps) = {}
            /\ idx > HostIndex(h)
            /\ \A k \in DOMAIN hosts.objs :
                  (HostIndex(h) < k /\ k < idx) => Recorded(results, hosts.objs[k])
            /\ hg_pc = "exited" =>
                  /\ idx = Len(hosts.objs) + 1
                  /\ \A k \in DOMAIN hosts.objs : Recorded(hg_report, hosts.objs[k])
            /\ hg_pc = "failed" =>
                  \E i \in RaisedCalls :
                      /\ is_connected(hg_calls[i].host)
                      /\ HostIndex(hg_calls[i].host) > HostIndex(h)

C8_Witness ==
    /\ hg_pc = "exited"
    /\ Len(hosts.objs) = 2
    /\ connectionState[hosts.objs[1]] = "notResponding"
    /\ hg_report[hosts.objs[1]].changed = FALSE
    /\ hg_report[hosts.objs[2]].changed = TRUE

\* C9: the overall changed flag starts FALSE, is TRUE only when some host is
\* recorded with changed = TRUE, and in every successful report it is TRUE
\* exactly when at least one per-host record has changed = TRUE.
C9_AggregateChanged ==
    /\ (hg_pc = "ensure" /\ idx = 1) => results["changed"] = FALSE
    /\ hg_pc # "main" =>
          (results["changed"] = TRUE =>
              \E h \in TargetHosts : Recorded(results, h) /\ results[h].changed = TRUE)
    /\ hg_pc = "exited" =>
          (hg_report["changed"] = TRUE
              <=> \E h \in TargetHosts : hg_report[h].changed = TRUE)

C9_Witness ==
    /\ hg_pc = "exited"
    /\ hg_report["changed"] = TRUE
    /\ \E h \in TargetHosts : hg_report[h].changed = FALSE
    /\ \E h \in TargetHosts : hg_report[h].changed = TRUE


\* ------------------------------------------------------ tags: vocabulary
\* a tag matches as the lookup is specified: the name is the target name, and
\* no category_id was given or the tag's category is the given one
SpecifiedMatches ==
    {i \in DOMAIN global_tags :
        /\ global_tags[i].tag_name = tag_params.tag_name
        /\ \/ tag_params.category_id = None
           \/ global_tags[i].tag_category_id = tag_params.category_id}
TagCallsOf(ops) == {i \in DOMAIN tag_calls : tag_calls[i].op \in ops}
TagRunEnded == tag_pc \in {"exited", "failed"}

\* C1 (as claimed): the observed state is "present" exactly when some listed tag
\* has the target name and, if a category_id was given, that category.
C1_ObservedStateIsSpecifiedMatch ==
    TagRunEnded => (current_state = "present" <=> SpecifiedMatches # {})

\* C10 (as claimed): with state=absent and a tag of the target name listed (no
\* category_id given, or the given one is the tag's), exactly one delete call is
\* issued, keyed by the id of the first such tag, and a run that ends without a
\* service error reports changed = TRUE.
C10_DeleteWhenPresent ==
    (TagRunEnded /\ tag_params.state = "absent" /\ SpecifiedMatches # {}) =>
        LET first == CHOOSE i \in SpecifiedMatches : \A j \in SpecifiedMatches : i <= j IN
        /\ Cardinality(TagCallsOf({"Tag.delete"})) = 1
        /\ \A i \in TagCallsOf({"Tag.delete"}) :
              tag_calls[i].arg = <<global_tags[first].tag_id>>
        /\ tag_pc = "exited" => tag_report["changed"] = TRUE


\* the tags of the scan that carry the target name and the given category_id,
\* and the first of them: the tag the lookup selects
ScannedMatches ==
    {i \in DOMAIN global_tags :
        /\ global_tags[i].tag_name = tag_params.tag_name
        /\ global_tags[i].tag_category_id = tag_params.category_id}
SelectedTag ==
    global_tags[CHOOSE i \in ScannedMatches : \A j \in ScannedMatches : i <= j]
StoredTag(tag_id) == CHOOSE t \in Range(tagStore) : t.id = tag_id

CreateCase ==
    /\ tag_params.state = "present"
    /\ current_state = "absent"
    /\ tag_params.category_id \in Range(Categories)
DesiredTagSpec ==
    [name |-> tag_params.tag_name,
     description |-> tag_params.tag_description,
     category_id |-> tag_params.category_id]
OneCreateOfDesiredSpec ==
    /\ Cardinality(TagCallsOf({"Tag.create"})) = 1
    /\ \A i \in TagCallsOf({"Tag.create"}) : tag_calls[i].arg = <<DesiredTagSpec>>

\* C12 (as claimed): with state=present, the tag not present and a category_id
\* that a listed category has, create is invoked exactly once with that
\* category_id, the target name and the description, and the report has
\* changed = TRUE with the tag_id the service returned.
C12_CreateReportsChanged ==
    (tag_pc = "exited" /\ CreateCase) =>
        /\ OneCreateOfDesiredSpec
        /\ tag_report["changed"] = TRUE
        /\ \A i \in TagCallsOf({"Tag.create"}) :
              tag_report["tag_status"].tag_id = tag_calls[i].ret[1]

\* C12 (amended): in that case create is invoked exactly once with that
\* category_id, the target name and the description; when it returns a
\* non-empty id the report has changed = TRUE, the "created" message and that
\* id, and the service holds the new tag.
C12_CreateReportsChangedForAnId ==
    (TagRunEnded /\ CreateCase) =>
        /\ OneCreateOfDesiredSpec
        /\ \A i \in TagCallsOf({"Tag.create"}) :
              (tag_calls[i].raised = <<>> /\ tag_calls[i].ret # <<"">>) =>
                  /\ tag_pc = "exited"
                  /\ tag_report["changed"] = TRUE
                  /\ tag_report["tag_status"].tag_id = tag_calls[i].ret[1]
                  /\ tag_report["tag_status"].msg
                        = <<"Tag '", tag_params.tag_name, "' created.">>
                  /\ \E t \in Range(tagStore) :
                        /\ t.id = tag_calls[i].ret[1]
                        /\ t.name = tag_params.tag_name
                        /\ t.category_id = tag_params.category_id
                        /\ t.description = tag_params.tag_description

C12_Witness ==
    /\ tag_pc = "exited"
    /\ CreateCase
    /\ Len(global_tags) = 2
    /\ \E i \in DOMAIN global_tags : global_tags[i].tag_name = tag_params.tag_name
    /\ tag_report["changed"] = TRUE
    /\ tag_report["tag_status"].tag_id = NewTagId


StoreAsScanned ==
    /\ Len(tagStore) = Len(global_tags)
    /\ \A i \in DOMAIN tagStore :
          /\ tagStore[i].id = global_tags[i].tag_id
          /\ tagStore[i].description = global_tags[i].tag_description

\* C13: with state=present and the tag not present, a category_id that is
\* missing or that no listed category has ends the run in a fatal failure that
\* names the missing parameter or the category_id, and no create call is issued
\* and the service's tags stay as they were.
C13_CreateNeedsAKnownCategory ==
    (TagRunEnded /\ tag_params.state = "present" /\ current_state = "absent"
       /\ tag_params.category_id \notin Range(Categories)) =>
        /\ tag_pc = "failed"
        /\ tag_report["failed"] = TRUE
        /\ "changed" \notin DOMAIN tag_report
        /\ TagCallsOf({"Tag.create", "Tag.update", "Tag.delete"}) = {}
        /\ StoreAsScanned
        /\ IF tag_params.category_id = None
           THEN tag_report["msg"]
                   = <<"'category_id' is required parameter while creating tag.">>
           ELSE /\ Len(tag_report["msg"]) = 2
                /\ tag_report["msg"][2] = tag_params.category_id
                /\ Cardinality(TagCallsOf({"Category.get"})) = Len(Categories)

C13_Witness ==
    /\ tag_pc = "failed"
    /\ tag_params.state = "present"
    /\ current_state = "absent"
    /\ tag_params.category_id = UnknownCategory
    /\ TagCallsOf({"Category.get"}) # {}


LookupRan == current_state # ""

\* C14: with state=absent and no tag of the target name (and given category)
\* listed, the lookup observes "absent", the run reports changed = FALSE, and the
\* only service calls are the one tag enumeration and the detail reads of the
\* scan: no category enumeration, no create, update or delete.
C14_AbsentAndAbsentIsNoOp ==
    (TagRunEnded /\ LookupRan /\ tag_params.state = "absent" /\ SpecifiedMatches = {}) =>
        /\ current_state = "absent"
        /\ tag_pc = "exited"
        /\ tag_report = [changed |-> FALSE]
        /\ \A i \in DOMAIN tag_calls : tag_calls[i].op \in {"Tag.list", "Tag.get"}
        /\ Cardinality(TagCallsOf({"Tag.list"})) = 1
        /\ Cardinality(TagCallsOf({"Tag.get"})) = Len(global_tags)
        /\ StoreAsScanned

C14_Witness ==
    /\ tag_pc = "exited"
    /\ tag_params.state = "absent"
    /\ tag_params.category_id \in Range(Categories)
    /\ SpecifiedMatches = {}
    /\ Len(global_tags) = 2
    /\ \A i \in DOMAIN global_tags : global_tags[i].tag_name = tag_params.tag_name
    /\ tag_report = [changed |-> FALSE]


TagMutationOps == {"Tag.create", "Tag.update", "Tag.delete"}
TagRaisedCalls == {i \in DOMAIN tag_calls : tag_calls[i].raised # <<>>}

\* C15: a create, update or delete call that raises a service error ends the
\* run in a fatal failure whose message is the error's own message; the call is
\* the last one issued and the only one of its kind (no retry), the report is no
\* success report (it has no changed flag), and the tags stay as they were.
C15_ServiceErrorIsFatal ==
    \A i \in TagRaisedCalls :
        /\ tag_calls[i].op \in TagMutationOps
        /\ tag_pc = "failed"
        /\ tag_report["failed"] = TRUE
        /\ tag_report["msg"] = <<tag_calls[i].raised[1]>>
        /\ "changed" \notin DOMAIN tag_report
        /\ i = Len(tag_calls)
        /\ Cardinality(TagCallsOf(TagMutationOps)) = 1
        /\ StoreAsScanned

C15_Witness ==
    /\ \E i \in TagRaisedCalls : tag_calls[i].op = "Tag.delete"
    /\ Len(global_tags) = 2
    /\ tag_pc = "failed"


\* C16: a tag run started in check mode issues no create, update or delete
\* call (it issues no service call at all: the run ends as skipped before the
\* tags are read), so it never ends in a service fault, whatever the desired
\* state and whatever tags the service holds.
C16_TagCheckModeNeverMutates ==
    tag_check_mode =>
        /\ TagCallsOf(TagMutationOps) = {}
        /\ TagRaisedCalls = {}
        /\ tag_calls = <<>>
        /\ tag_pc # "failed"
        /\ TagRunEnded => (tag_report["skipped"] = TRUE /\ "failed" \notin DOMAIN tag_report)

C16_Witness ==
    /\ tag_check_mode
    /\ tag_pc = "exited"
    /\ tag_params.state = "absent"
    /\ \E t \in Range(tagStore) :
          t.name = tag_params.tag_name /\ t.category_id = tag_params.category_id


\* ------------------------------------------- C17
\* the run is a second invocation that follows a first one that was no dry run
HostSecondRun == hg_pc # "idle" /\ invocation = 2 /\ ~hg_params.check_mode
TagSecondRun == tag_pc # "idle" /\ invocation = 2 /\ ~tag_check_mode
\* the first invocation's create call returned no tag id
NothingWasCreated ==
    /\ "tag_status" \in DOMAIN prev_report
    /\ prev_report["tag_status"].msg = <<"No tag created">>

HostSecondRunIsNoOp ==
    HostSecondRun =>
        /\ \A i \in DOMAIN hg_calls : hg_calls[i].op \notin MutationOps
        /\ hg_pc = "exited" =>
              /\ hg_report["changed"] = FALSE
              /\ \A h \in TargetHosts :
                    /\ Recorded(hg_report, h)
                    /\ hg_report[h].changed = FALSE
                    /\ is_connected(h) => hg_report[h].msg = already_configured_msg

TagSecondRunIsNoOp ==
    /\ TagCallsOf(TagMutationOps) = {}
    /\ TagRunEnded =>
          /\ tag_pc = "exited"
          /\ tag_report["changed"] = FALSE

\* C17 (as claimed): after a first invocation that was no dry run and ended
\* successfully, a second invocation with the same parameters, nobody else
\* having changed the hosts or the tags, issues no mutation call and reports
\* changed = FALSE, every connected host as already configured.
C17_SecondRunIsNoOp ==
    /\ HostSecondRunIsNoOp
    /\ TagSecondRun => TagSecondRunIsNoOp

\* C17 (amended): the same, for the tag module only when the first invocation
\* did not end with "No tag created" (its create call returned an empty id):
\* after such a run the tag is still absent and the second run creates again.
\* The tagging service holds at most one tag per (name, category_id).
C17_SecondRunIsNoOpOnceSettled ==
    /\ HostSecondRunIsNoOp
    /\ (TagSecondRun /\ ~NothingWasCreated) => TagSecondRunIsNoOp

C17_Witness ==
    /\ invocation = 2
    /\ tag_pc = "exited"
    /\ ~tag_check_mode
    /\ prev_report["changed"] = TRUE
    /\ prev_report["tag_status"].msg = <<"Tag '", tag_params.tag_name, "' created.">>
    /\ current_state = "present"

EmptyIdCreates ==
    {i \in TagCallsOf({"Tag.create"}) :
        tag_calls[i].raised = <<>> /\ tag_calls[i].ret = <<"">>}

\* C18: a create call that returns without error but with an empty tag id ends
\* the run as a success report with changed = FALSE and the message
\* "No tag created": it is no fatal failure and no changed = TRUE.
C18_EmptyIdIsNoTagCreated ==
    EmptyIdCreates # {} =>
        /\ tag_pc = "exited"
        /\ "failed" \notin DOMAIN tag_report
        /\ tag_report["changed"] = FALSE
        /\ tag_report["tag_status"].msg = <<"No tag created">>
        /\ tag_report["tag_status"].tag_id = ""

C18_Witness ==
    /\ EmptyIdCreates # {}
    /\ tag_pc = "exited"
    /\ Len(global_tags) = 1

\* C19: in every run at most one create, update or delete call is issued; with
\* state=absent it is never a create or an update, with state=present never a
\* delete; an update or delete call is keyed by the tag_id of the tag the
\* lookup selected, the first listed tag with the target name and category.
C19_AtMostOneFittingMutation ==
    /\ Cardinality(TagCallsOf(TagMutationOps)) <= 1
    /\ tag_params.state = "absent" => TagCallsOf({"Tag.create", "Tag.update"}) = {}
    /\ tag_params.state = "present" => TagCallsOf({"Tag.delete"}) = {}
    /\ \A i \in TagCallsOf({"Tag.update", "Tag.delete"}) :
          /\ current_state = "present"
          /\ ScannedMatches # {}
          /\ tag_obj = <<SelectedTag>>
          /\ tag_calls[i].arg[1] = SelectedTag.tag_id
    /\ \A i \in TagCallsOf({"Tag.create"}) : current_state = "absent"

C19_Witness ==
    /\ TagCallsOf({"Tag.delete"}) # {}
    /\ Cardinality(ScannedMatches) = 2
    /\ tag_pc = "exited"


\* C20: RestartService is issued for a host only right after an
\* UpdateGraphicsConfig call for the same host that returned without a fault;
\* never for a host that is not connected, already configured, in check mode,
\* or whose update raised a fault; and at most one update and one restart are
\* issued per host.
C20_RestartOnlyAfterSuccessfulUpdate ==
    /\ \A i \in DOMAIN hg_calls : hg_calls[i].host \in TargetHosts
    /\ \A h \in TargetHosts :
          /\ Cardinality(CallsOf(h, {"UpdateGraphicsConfig"})) <= 1
          /\ Cardinality(CallsOf(h, {"RestartService"})) <= 1
          /\ \A i \in CallsOf(h, {"RestartService"}) :
                /\ i > 1
                /\ hg_calls[i - 1].op = "UpdateGraphicsConfig"
                /\ hg_calls[i - 1].host = h
                /\ hg_calls[i - 1].raised = <<>>
                /\ connectionState[h] = "connected"
                /\ ReadDiffering(h)
                /\ ~hg_params.check_mode
                /\ hg_params.restart_xorg
          /\ \A i \in CallsOf(h, {"UpdateGraphicsConfig"}) :
                /\ i > 1
                /\ hg_calls[i - 1].op = "graphicsConfig"
                /\ hg_calls[i - 1].host = h
                /\ hg_calls[i - 1].ret # <<DesiredConfig>>
                /\ connectionState[h] = "connected"
                /\ ~hg_params.check_mode

C20_Witness ==
    /\ hg_pc = "exited"
    /\ Len(hosts.objs) = 2
    /\ \A h \in TargetHosts : CallsOf(h, {"RestartService"}) # {}

====
